---- MODULE Spec2Model ----
(***************************************************************************)
(* Model of filter_profiler_results.py: a command-line filter that loads a *)
(* pstats report, drops every entry (and every caller record) whose        *)
(* filename matches one of a list of compiled patterns, optionally lists   *)
(* the retained filenames on standard error, and marshals the reduced      *)
(* report to standard output.                                              *)
(*                                                                         *)
(* Strings are sequences of one-character strings.  A compiled pattern is  *)
(* a record: a sequence of alternatives, each a sequence of regex tokens,  *)
(* and the DOTALL flag.  The report is a function from call-site keys      *)
(* <<filename, line, symbol>> to 5-tuples <<nc, cc, tt, ct, callers>>,     *)
(* where callers is a function from call-site keys to 4-tuples.            *)
(***************************************************************************)
EXTENDS Integers, Sequences, FiniteSets, TLC

VARIABLES
    argv,              \* the command line: positionals and the two flags
    profile_file,      \* what is stored under the profile filename
    pc,                \* position of main(), or how the process ended
    filename_filters,  \* main(): the list of compiled patterns
    stats,             \* main(): Stats(...).stats
    filtered_stats,    \* main(): the filtered report
    stderr,            \* lines written by print_included_filenames
    stdout             \* objects marshalled to sys.stdout.buffer

vars == <<argv, profile_file, pc, filename_filters, stats, filtered_stats,
          stderr, stdout>>

(***************************************************************************)
(* Bounds of the model.                                                    *)
(***************************************************************************)
MaxEntries == 3   \* top-level entries of an input report
MaxCallers == 1   \* caller records of an entry
MaxGlobs == 2     \* user globs on a command line
MaxGlobLen == 3   \* length of an exhaustively enumerated glob
MaxNameLen == 3   \* length of an exhaustively enumerated filename

(***************************************************************************)
(* Characters.  Python compares and sorts text by code point; Ascii lists  *)
(* printable ASCII characters in code-point order, and Ord is a            *)
(* character's rank in that order (the newline, code point 10, is first).  *)
(***************************************************************************)
Ascii ==
    <<" ", "!", "\"", "#", "$", "%", "&", "'", "(", ")", "*", "+", ",", "-",
      ".", "/", "0", "1", "2", "3", "4", "5", "6", "7", "8", "9", ":", ";",
      "<", "=", ">", "?", "@", "A", "B", "C", "D", "E", "F", "G", "H", "I",
      "J", "K", "L", "M", "N", "O", "P", "Q", "R", "S", "T", "U", "V", "W",
      "X", "Y", "Z", "[", "\\", "]", "^", "_", "a", "b", "c", "d", "e",
      "f", "g", "h", "i", "j", "k", "l", "m", "n", "o", "p", "q", "r", "s",
      "t", "u", "v", "w", "x", "y", "z", "{", "|", "}", "~">>

Chars == {Ascii[i] : i \in 1..Len(Ascii)} \cup {"\n"}

Ord == [c \in Chars |->
          IF c = "\n" THEN 0
          ELSE CHOOSE i \in 1..Len(Ascii) : Ascii[i] = c]

IsDigit(c) == c \in {"0", "1", "2", "3", "4", "5", "6", "7", "8", "9"}

\* Python's < on text: lexicographic by code point, a proper prefix first.
RECURSIVE StrLess(_, _)
StrLess(a, b) ==
    IF b = <<>> THEN FALSE
    ELSE IF a = <<>> THEN TRUE
    ELSE IF Ord[Head(a)] # Ord[Head(b)] THEN Ord[Head(a)] < Ord[Head(b)]
    ELSE StrLess(Tail(a), Tail(b))

(***************************************************************************)
(* Regular expressions, as far as the program builds them.                 *)
(***************************************************************************)
Tok(t, c, neg, items) == [t |-> t, c |-> c, neg |-> neg, items |-> items]
Lit(c) == Tok("lit", c, FALSE, <<>>)            \* an escaped or plain character
Dot == Tok("dot", "", FALSE, <<>>)              \* .
DotStar == Tok("star", "", FALSE, <<>>)         \* .*
Class(neg, items) == Tok("class", "", neg, items) \* [...] of ranges <<lo, hi>>
OptDigit == Tok("optdigit", "", FALSE, <<>>)    \* \d?
OptLit(c) == Tok("optlit", c, FALSE, <<>>)      \* c?
EndZ == Tok("end", "", FALSE, <<>>)             \* \Z
Never == Tok("never", "", FALSE, <<>>)          \* (?!)

Lits(s) == [i \in 1..Len(s) |-> Lit(s[i])]

Regex(alts, dotall) == [alts |-> alts, dotall |-> dotall]

\* Does token tok (one that consumes a character) accept character ch?
TokAccepts(tok, ch, dotall) ==
    CASE tok.t = "lit" -> ch = tok.c
      [] tok.t = "optlit" -> ch = tok.c
      [] tok.t = "optdigit" -> IsDigit(ch)
      [] tok.t = "dot" -> dotall \/ ch # "\n"
      [] tok.t = "star" -> dotall \/ ch # "\n"
      [] tok.t = "class" ->
            LET hit == \E k \in 1..Len(tok.items) :
                        /\ Ord[tok.items[k][1]] <= Ord[ch]
                        /\ Ord[ch] <= Ord[tok.items[k][2]]
            IN  IF tok.neg THEN ~hit ELSE hit
      [] OTHER -> FALSE

\* Can tokens toks[i..] match s starting at position pos (any end position)?
RECURSIVE MatchFrom(_, _, _, _, _)
MatchFrom(toks, i, s, pos, dotall) ==
    IF i > Len(toks) THEN TRUE
    ELSE LET tok == toks[i] IN
      CASE tok.t = "end" ->
             pos = Len(s) + 1 /\ MatchFrom(toks, i + 1, s, pos, dotall)
        [] tok.t = "never" -> FALSE
        [] tok.t = "star" ->
             \/ MatchFrom(toks, i + 1, s, pos, dotall)
             \/ /\ pos <= Len(s)
                /\ TokAccepts(tok, s[pos], dotall)
                /\ MatchFrom(toks, i, s, pos + 1, dotall)
        [] tok.t \in {"optdigit", "optlit"} ->
             \/ MatchFrom(toks, i + 1, s, pos, dotall)
             \/ /\ pos <= Len(s)
                /\ TokAccepts(tok, s[pos], dotall)
                /\ MatchFrom(toks, i + 1, s, pos + 1, dotall)
        [] OTHER ->
             /\ pos <= Len(s)
             /\ TokAccepts(tok, s[pos], dotall)
             /\ MatchFrom(toks, i + 1, s, pos + 1, dotall)

\* filter_re.match(filename): anchored at the start only.
re_match(filter_re, filename) ==
    \E a \in 1..Len(filter_re.alts) :
        MatchFrom(filter_re.alts[a], 1, filename, 1, filter_re.dotall)

\* re.compile: a character range whose ends are reversed is an error.
re_compile(rx) ==
    [ok |-> \A a \in 1..Len(rx.alts) : \A i \in 1..Len(rx.alts[a]) :
               LET tok == rx.alts[a][i] IN
               tok.t = "class" =>
                  \A k \in 1..Len(tok.items) :
                     Ord[tok.items[k][1]] <= Ord[tok.items[k][2]],
     re |-> rx]

(***************************************************************************)
(* fnmatch.translate.  "*" becomes ".*", "?" becomes ".", a bracket        *)
(* expression becomes a character class, every other character is escaped; *)
(* the result is wrapped as (?s:...)\Z.  Interpreters differ on a bracket  *)
(* range whose ends are reversed: an older fnmatch hands it to re.compile  *)
(* unchanged (legacy), a newer one drops the range.                        *)
(***************************************************************************)
\* Index of the "]" that closes the bracket opened at pat[i]; Len(pat)+1 if none.
BracketEnd(pat, i) ==
    LET n == Len(pat)
        j0 == i + 1
        j1 == IF j0 <= n /\ pat[j0] = "!" THEN j0 + 1 ELSE j0
        j2 == IF j1 <= n /\ pat[j1] = "]" THEN j1 + 1 ELSE j1
        closers == {j \in j2..n : pat[j] = "]"}
    IN  IF closers = {} THEN n + 1
        ELSE CHOOSE j \in closers : \A q \in closers : j <= q

\* The members of a character class body: ranges x-y and single characters.
RECURSIVE ClassItems(_, _)
ClassItems(body, k) ==
    IF k > Len(body) THEN <<>>
    ELSE IF k + 2 <= Len(body) /\ body[k + 1] = "-"
         THEN <<(<<body[k], body[k + 2]>>)>> \o ClassItems(body, k + 3)
         ELSE <<(<<body[k], body[k]>>)>> \o ClassItems(body, k + 1)

BracketToken(stuff, legacy) ==
    LET neg == stuff[1] = "!"
        body == IF neg THEN Tail(stuff) ELSE stuff
        items == ClassItems(body, 1)
        kept == SelectSeq(items, LAMBDA r : Ord[r[1]] <= Ord[r[2]])
    IN  IF legacy THEN Class(neg, items)
        ELSE IF kept # <<>> THEN Class(neg, kept)
        ELSE IF neg THEN Dot
        ELSE Never

RECURSIVE TranslateFrom(_, _, _)
TranslateFrom(pat, i, legacy) ==
    IF i > Len(pat) THEN <<>>
    ELSE LET c == pat[i] IN
      CASE c = "*" -> <<DotStar>> \o TranslateFrom(pat, i + 1, legacy)
        [] c = "?" -> <<Dot>> \o TranslateFrom(pat, i + 1, legacy)
        [] c = "[" ->
             LET j == BracketEnd(pat, i) IN
             IF j > Len(pat)
             THEN <<Lit("[")>> \o TranslateFrom(pat, i + 1, legacy)
             ELSE <<BracketToken(SubSeq(pat, i + 1, j - 1), legacy)>>
                    \o TranslateFrom(pat, j + 1, legacy)
        [] OTHER -> <<Lit(c)>> \o TranslateFrom(pat, i + 1, legacy)

\* Mutant: the translation without its closing \Z.
fnmatch_translate_unanchored(pat, legacy) ==
    Regex(<<TranslateFrom(pat, 1, legacy)>>, TRUE)

fnmatch_translate(pat, legacy) ==
    Regex(<<TranslateFrom(pat, 1, legacy) \o <<EndZ>>>>, TRUE)

(***************************************************************************)
(* The two built-in patterns of --remove-garbage.                          *)
(***************************************************************************)
\* r'.*lib[\\/]python\d?\.?\d?/.*'
GarbageLib ==
    Regex(<< <<DotStar>> \o Lits(<<"l", "i", "b">>)
              \o <<Class(FALSE, <<(<<"\\", "\\">>), (<<"/", "/">>)>>)>>
              \o Lits(<<"p", "y", "t", "h", "o", "n">>)
              \o <<OptDigit, OptLit("."), OptDigit, Lit("/"), DotStar>> >>,
          FALSE)

\* r'~|<string>|<frozen .*>'
GarbageNames ==
    Regex(<< Lits(<<"~">>),
             Lits(<<"<", "s", "t", "r", "i", "n", "g", ">">>),
             Lits(<<"<", "f", "r", "o", "z", "e", "n", " ">>)
                \o <<DotStar, Lit(">")>> >>,
          FALSE)

\* Mutant: the built-in patterns replace the user's globs.
GarbageOnly(remove_garbage, user_filters) ==
    IF remove_garbage
    THEN <<GarbageLib, GarbageNames>>
    ELSE user_filters

\* main(): the built-in patterns go ahead of the user's compiled globs.
WithGarbage(remove_garbage, user_filters) ==
    IF remove_garbage
    THEN <<GarbageLib, GarbageNames>> \o user_filters
    ELSE user_filters

(***************************************************************************)
(* Filtering.                                                              *)
(***************************************************************************)
\* Mutant: all() in place of any().
should_include_stats_all(stats_key, filters) ==
    LET filename == stats_key[1] IN
    IF filters # <<>> /\ \A i \in 1..Len(filters) : re_match(filters[i], filename)
    THEN FALSE
    ELSE TRUE

should_include_stats(stats_key, filters) ==
    LET filename == stats_key[1] IN
    IF \E i \in 1..Len(filters) : re_match(filters[i], filename)
    THEN FALSE
    ELSE TRUE

\* Mutant: the caller records are copied without the condition.
CopiedCallers(callers, filters) == callers

\* The inner comprehension of main(): the caller records that are kept.
FilteredCallers(callers, filters) ==
    [caller_key \in {c \in DOMAIN callers : should_include_stats(c, filters)}
        |-> callers[caller_key]]

\* Mutant: nc recomputed as the number of caller records kept.
FilteredStatsRecounted(st, filters) ==
    [key \in {k \in DOMAIN st : should_include_stats(k, filters)}
        |-> <<Cardinality(DOMAIN FilteredCallers(st[key][5], filters)),
              st[key][2], st[key][3], st[key][4],
              FilteredCallers(st[key][5], filters)>>]

\* Mutant: the condition of the outer comprehension negated.
FilteredStatsInverted(st, filters) ==
    [key \in {k \in DOMAIN st : ~should_include_stats(k, filters)}
        |-> <<st[key][1], st[key][2], st[key][3], st[key][4],
              FilteredCallers(st[key][5], filters)>>]

\* The outer comprehension of main().
FilteredStats(st, filters) ==
    [key \in {k \in DOMAIN st : should_include_stats(k, filters)}
        |-> <<st[key][1], st[key][2], st[key][3], st[key][4],
              FilteredCallers(st[key][5], filters)>>]

(***************************************************************************)
(* print_included_filenames: sorted(), then groupby() keeps the first of   *)
(* every run of equal filenames.                                           *)
(***************************************************************************)
\* The filenames of the keys, one per key, in the mapping's iteration order.
RECURSIVE KeyFilenames(_)
KeyFilenames(keys) ==
    IF keys = {} THEN <<>>
    ELSE LET k == CHOOSE x \in keys : TRUE
         IN  <<k[1]>> \o KeyFilenames(keys \ {k})

RECURSIVE Insert(_, _)
Insert(x, s) ==
    IF s = <<>> THEN <<x>>
    ELSE IF StrLess(x, Head(s)) THEN <<x>> \o s
    ELSE <<Head(s)>> \o Insert(x, Tail(s))

RECURSIVE Sorted(_)
Sorted(s) == IF s = <<>> THEN <<>> ELSE Insert(Head(s), Sorted(Tail(s)))

RECURSIVE GroupBy(_)
GroupBy(s) ==
    IF Len(s) <= 1 THEN s
    ELSE IF s[1] = s[2] THEN GroupBy(Tail(s))
    ELSE <<s[1]>> \o GroupBy(Tail(s))

\* Mutant: sorted() without groupby().
print_sorted_filenames(fs) == Sorted(KeyFilenames(DOMAIN fs))

print_included_filenames(fs) == GroupBy(Sorted(KeyFilenames(DOMAIN fs)))

(***************************************************************************)
(* parse_arguments.  The first positional is the profile filename, the     *)
(* rest are globs (nargs='+').                                             *)
(***************************************************************************)
parse_arguments(av) ==
    IF av.positionals = <<>> /\ ~av.remove_garbage
          /\ ~av.print_included_filenames
    THEN "help"                     \* len(sys.argv) == 1: print_help, exit(1)
    ELSE IF Len(av.positionals) < 2
    THEN "argerror"                 \* argparse: a required argument is missing
    ELSE "ok"

filename_filter_glob_list(av) == Tail(av.positionals)

(***************************************************************************)
(* Inputs.  The filenames and globs are those of the module docstring and  *)
(* of paths the built-in patterns are written for.                         *)
(***************************************************************************)
FooBar == <<"f", "o", "o", "/", "b", "a", "r">>
BazFooBar == <<"b", "a", "z", "/", "f", "o", "o", "/", "b", "a", "r">>
FooOneTwoBar ==
    <<"f", "o", "o", "/", "o", "n", "e", "/", "t", "w", "o", "/", "b", "a", "r">>
FooBarBaz == <<"f", "o", "o", "/", "b", "a", "r", "/", "b", "a", "z">>
LibPython27 ==
    <<"l", "i", "b", "/", "p", "y", "t", "h", "o", "n", "2", ".", "7", "/", "x">>
LibPython310 ==
    <<"l", "i", "b", "/", "p", "y", "t", "h", "o", "n", "3", ".", "1", "0", "/",
      "x">>
TildeFrame == <<"~">>

GlobFooStarBar == <<"f", "o", "o", "/", "*", "/", "b", "a", "r">>
GlobFooBar == FooBar
GlobReversedRange == <<"[", "z", "-", "a", "]">>

ProfileName == <<"p">>

FileNames == {FooBar, FooOneTwoBar, LibPython27, LibPython310, TildeFrame}

\* Call-site keys <<filename, line number, symbol>>; FooBar has two of them.
Keys == {<<f, 1, "f">> : f \in FileNames} \cup {<<FooBar, 2, "g">>}

GlobPool == {GlobFooStarBar, GlobFooBar, GlobReversedRange}

SubsetsUpTo(S, n) == {T \in SUBSET S : Cardinality(T) <= n}

\* The values stored under a key; they differ from key to key.
Timing(caller_key, key) ==
    <<caller_key[2], key[2], Len(caller_key[1]), Len(key[1])>>

Entry(key, callers) ==
    <<key[2], key[2] + 1, Len(key[1]), Len(key[1]) + key[2],
      [c \in callers |-> Timing(c, key)]>>

Report(top, callers) == [k \in top |-> Entry(k, callers)]

EmptyReport == Report({}, {})

\* The keys that appear as callers.
CallerKeys == {<<f, 1, "f">> : f \in {FooBar, LibPython310, TildeFrame}}

Reports ==
    {Report(top, callers) : top \in SubsetsUpTo(Keys, MaxEntries),
                            callers \in SubsetsUpTo(CallerKeys, MaxCallers)}

\* What Stats(profile_filename) finds: a report, no file, or no report in it.
ProfileFiles ==
    {[status |-> "ok", data |-> r] : r \in Reports}
        \cup {[status |-> s, data |-> EmptyReport] : s \in {"missing", "malformed"}}

\* Lists of distinct globs of the pool.
GlobLists ==
    {gl \in UNION {[1..n -> GlobPool] : n \in 0..MaxGlobs} :
        \A i, j \in 1..Len(gl) : gl[i] = gl[j] => i = j}

Argv(positionals, remove_garbage, print_included) ==
    [positionals |-> positionals, remove_garbage |-> remove_garbage,
     print_included_filenames |-> print_included]

CommandLines ==
    {Argv(pos, rg, pi) :
        pos \in {<<>>} \cup {<<ProfileName>> \o gl : gl \in GlobLists},
        rg \in BOOLEAN, pi \in BOOLEAN}

Init ==
    /\ argv \in CommandLines
    /\ profile_file \in ProfileFiles
    /\ pc = "parse"
    /\ filename_filters = <<>>
    /\ stats = EmptyReport
    /\ filtered_stats = EmptyReport
    /\ stderr = <<>>
    /\ stdout = <<>>

(***************************************************************************)
(* Exhaustive inputs for the matching of one glob against one filename.    *)
(***************************************************************************)
GlobAlphabet == {"a", "/", "*", "?"}
NameAlphabet == {"a", "/"}

SeqsUpTo(A, n) == UNION {[1..k -> A] : k \in 0..n}

MatchGlobs == SeqsUpTo(GlobAlphabet, MaxGlobLen) \cup {GlobFooStarBar, GlobFooBar}
MatchNames ==
    SeqsUpTo(NameAlphabet, MaxNameLen)
        \cup {FooBar, BazFooBar, FooOneTwoBar, FooBarBaz}

InitMatch ==
    /\ argv \in {Argv(<<ProfileName, g>>, FALSE, pi) :
                    g \in MatchGlobs, pi \in BOOLEAN}
    /\ profile_file \in
          {[status |-> "ok", data |-> Report({<<n, 1, "f">>}, {<<n, 1, "f">>})] :
              n \in MatchNames}
    /\ pc = "parse"
    /\ filename_filters = <<>>
    /\ stats = EmptyReport
    /\ filtered_stats = EmptyReport
    /\ stderr = <<>>
    /\ stdout = <<>>

(***************************************************************************)
(* Inputs for the order of the patterns: every list of globs, with and     *)
(* without the built-in patterns, over reports of a smaller set of keys.   *)
(***************************************************************************)
OrderKeys == CallerKeys \cup {<<FooOneTwoBar, 1, "f">>}

InitOrder ==
    /\ argv \in {Argv(<<ProfileName>> \o gl, rg, FALSE) :
                    gl \in GlobLists \ {<<>>}, rg \in BOOLEAN}
    /\ profile_file \in
          {[status |-> "ok", data |-> Report(top, callers)] :
              top \in SubsetsUpTo(OrderKeys, MaxEntries),
              callers \in SubsetsUpTo(CallerKeys, MaxCallers)}
    /\ pc = "parse"
    /\ filename_filters = <<>>
    /\ stats = EmptyReport
    /\ filtered_stats = EmptyReport
    /\ stderr = <<>>
    /\ stdout = <<>>

(***************************************************************************)
(* main(), step by step.  pc is the step to take next; "done", "help",     *)
(* "argerror" and "raised" are the ways the process ends (normally, after  *)
(* printing the help, on an argparse error, on an uncaught exception).     *)
(***************************************************************************)
ParseArguments ==
    /\ pc = "parse"
    /\ pc' = (LET r == parse_arguments(argv)
              IN  IF r = "ok" THEN "compile" ELSE r)
    /\ UNCHANGED <<argv, profile_file, filename_filters, stats,
                   filtered_stats, stderr, stdout>>

\* Lines 129-141: compile every glob, then add the built-in patterns.
CompileFilters ==
    /\ pc = "compile"
    /\ \E legacy \in BOOLEAN :
          LET globs == filename_filter_glob_list(argv)
              compiled == [i \in 1..Len(globs) |->
                             re_compile(fnmatch_translate(globs[i], legacy))]
          IN  IF \E i \in 1..Len(globs) : ~compiled[i].ok
              THEN /\ pc' = "raised"
                   /\ UNCHANGED filename_filters
              ELSE /\ pc' = "load"
                   /\ filename_filters' =
                         WithGarbage(argv.remove_garbage,
                                     [i \in 1..Len(globs) |-> compiled[i].re])
    /\ UNCHANGED <<argv, profile_file, stats, filtered_stats, stderr, stdout>>

\* Mutant: a profile that does not load is taken for an empty report.
LoadStatsOrEmpty ==
    /\ pc = "load"
    /\ stats' = profile_file.data
    /\ pc' = "filter"
    /\ UNCHANGED <<argv, profile_file, filename_filters, filtered_stats,
                   stderr, stdout>>

\* Line 143: Stats(args.profile_filename).
LoadStats ==
    /\ pc = "load"
    /\ IF profile_file.status = "ok"
       THEN /\ stats' = profile_file.data
            /\ pc' = "filter"
       ELSE /\ pc' = "raised"
            /\ UNCHANGED stats
    /\ UNCHANGED <<argv, profile_file, filename_filters, filtered_stats,
                   stderr, stdout>>

\* Lines 144-156.
FilterStats ==
    /\ pc = "filter"
    /\ filtered_stats' = FilteredStats(stats, filename_filters)
    /\ pc' = "list"
    /\ UNCHANGED <<argv, profile_file, filename_filters, stats, stderr, stdout>>

\* Lines 158-159.
PrintIncludedFilenames ==
    /\ pc = "list"
    /\ stderr' = IF argv.print_included_filenames
                 THEN stderr \o print_included_filenames(filtered_stats)
                 ELSE stderr
    /\ pc' = "dump"
    /\ UNCHANGED <<argv, profile_file, filename_filters, stats,
                   filtered_stats, stdout>>

\* Line 161: marshal.dump(filtered_stats, sys.stdout.buffer).
Dump ==
    /\ pc = "dump"
    /\ stdout' = Append(stdout, filtered_stats)
    /\ pc' = "done"
    /\ UNCHANGED <<argv, profile_file, filename_filters, stats,
                   filtered_stats, stderr>>

Next ==
    \/ ParseArguments
    \/ CompileFilters
    \/ LoadStats
    \/ FilterStats
    \/ PrintIncludedFilenames
    \/ Dump

Spec == Init /\ [][Next]_vars

SpecMatch == InitMatch /\ [][Next]_vars

SpecOrder == InitOrder /\ [][Next]_vars

(***************************************************************************)
(* Vocabulary of the properties.                                           *)
(***************************************************************************)
Output == stdout[1]

\* The filename matches one of the patterns main() compiled.
Excluded(filename) ==
    \E i \in 1..Len(filename_filters) : re_match(filename_filters[i], filename)

\* Shell-style matching of a whole filename against a glob of literal
\* characters, "?" and "*", stated on the glob itself.
RECURSIVE GlobMatches(_, _)
GlobMatches(glob, name) ==
    IF glob = <<>> THEN name = <<>>
    ELSE IF Head(glob) = "*"
    THEN \E k \in 0..Len(name) :
            GlobMatches(Tail(glob), SubSeq(name, k + 1, Len(name)))
    ELSE /\ name # <<>>
         /\ Head(glob) = "?" \/ Head(glob) = Head(name)
         /\ GlobMatches(Tail(glob), Tail(name))

\* What a report lost: <<k>> for a top-level key, <<k, c>> for caller c of k.
RemovedKeys(in, out) ==
    {<<k>> : k \in DOMAIN in \ DOMAIN out}
      \cup UNION {{<<k, c>> : c \in {x \in DOMAIN in[k][5] :
                                        \/ k \notin DOMAIN out
                                        \/ x \notin DOMAIN out[k][5]}} :
                  k \in DOMAIN in}

MatchesBuiltin(filename) ==
    re_match(GarbageLib, filename) \/ re_match(GarbageNames, filename)

\* The same, for the keys whose own or whose entry's filename is built-in garbage.
BuiltinKeys(in) ==
    {<<k>> : k \in {x \in DOMAIN in : MatchesBuiltin(x[1])}}
      \cup UNION {{<<k, c>> : c \in {x \in DOMAIN in[k][5] :
                                        \/ MatchesBuiltin(k[1])
                                        \/ MatchesBuiltin(x[1])}} :
                  k \in DOMAIN in}

UserFilters(legacy) ==
    LET globs == filename_filter_glob_list(argv)
    IN  [i \in 1..Len(globs) |-> re_compile(fnmatch_translate(globs[i], legacy)).re]

CallerClosed(report) ==
    \A k \in DOMAIN report : DOMAIN report[k][5] \subseteq DOMAIN report

\* The permutations of 1..n, for every length a filter list can have.
OrderingsOf ==
    [n \in 0..(MaxGlobs + 2) |->
        {p \in [1..n -> 1..n] : \A i, j \in 1..n : p[i] = p[j] => i = j}]

IsPrefix(p, s) == Len(p) <= Len(s) /\ SubSeq(s, 1, Len(p)) = p

\* The filename has a directory lib/python<version>/, the version being
\* digits and dots (2.7, 3.9, 3.10).
UnderLibPython(filename) ==
    LET lib == <<"l", "i", "b", "/", "p", "y", "t", "h", "o", "n">>
        n == Len(filename)
    IN  \E i \in 1..n : \E j \in (i + Len(lib) + 1)..n :
          /\ SubSeq(filename, i, i + Len(lib) - 1) = lib
          /\ filename[j] = "/"
          /\ \A q \in (i + Len(lib))..(j - 1) :
                IsDigit(filename[q]) \/ filename[q] = "."

SyntheticFrame(filename) ==
    \/ filename = <<"~">>
    \/ filename = <<"<", "s", "t", "r", "i", "n", "g", ">">>
    \/ /\ IsPrefix(<<"<", "f", "r", "o", "z", "e", "n", " ">>, filename)
       /\ filename[Len(filename)] = ">"

(***************************************************************************)
(* Properties.                                                             *)
(***************************************************************************)

\* C1: after main() has run, no top-level key of the output and no caller key
\* of a retained entry has a filename that matches an exclusion pattern.
C1_NoExcludedKeyInOutput ==
    pc = "done" =>
        \A k \in DOMAIN Output :
            /\ ~Excluded(k[1])
            /\ \A c \in DOMAIN Output[k][5] : ~Excluded(c[1])

\* C1 witness: a run that removed a top-level entry and removed a caller
\* record from an entry it kept.
C1_Witness ==
    /\ pc = "done"
    /\ \E k \in DOMAIN stats : Excluded(k[1])
    /\ \E k \in DOMAIN Output : \E c \in DOMAIN stats[k][5] : Excluded(c[1])

\* C2 as claimed: the output is a subset of the input by key at both levels
\* and its key set is never equal to the input's.
C2_StrictSubset ==
    pc = "done" =>
        /\ DOMAIN Output \subseteq DOMAIN stats
        /\ \A k \in DOMAIN Output : DOMAIN Output[k][5] \subseteq DOMAIN stats[k][5]
        /\ DOMAIN Output # DOMAIN stats

\* C2 as amended: the output is a subset of the input by key at both levels,
\* and its key set differs from the input's exactly when the filename of some
\* top-level input key matches a pattern.
C2_Subset ==
    pc = "done" =>
        /\ DOMAIN Output \subseteq DOMAIN stats
        /\ \A k \in DOMAIN Output : DOMAIN Output[k][5] \subseteq DOMAIN stats[k][5]
        /\ (DOMAIN Output # DOMAIN stats) <=> (\E k \in DOMAIN stats : Excluded(k[1]))

\* C2 witness: a non-empty report that the filter leaves with all its keys.
C2_Witness ==
    /\ pc = "done"
    /\ DOMAIN stats # {}
    /\ DOMAIN Output = DOMAIN stats

\* C3: a user glob excludes a filename iff the whole filename matches the
\* glob, "*" matching any characters, separators included: foo/*/bar removes
\* foo/one/two/bar, and foo/bar removes foo/bar and nothing longer.
C3_WholeNameGlobMatch ==
    pc = "done" =>
        LET glob == filename_filter_glob_list(argv)[1] IN
        \A k \in DOMAIN stats :
            /\ (k \notin DOMAIN Output) <=> GlobMatches(glob, k[1])
            /\ (glob = GlobFooStarBar /\ k[1] = FooOneTwoBar) => k \notin DOMAIN Output
            /\ glob = GlobFooBar => ((k \notin DOMAIN Output) <=> k[1] = FooBar)

\* C3 witness: foo/*/bar has removed foo/one/two/bar.
C3_Witness ==
    /\ pc = "done"
    /\ filename_filter_glob_list(argv) = <<GlobFooStarBar>>
    /\ \E k \in DOMAIN stats : k[1] = FooOneTwoBar /\ k \notin DOMAIN Output

\* C4: with --remove-garbage the filter list is the two built-in patterns
\* followed by the compiled user globs in their order, and what is removed
\* (at both levels) is what the user globs alone remove together with the keys
\* whose filename matches a built-in pattern.
C4_GarbageAheadOfUserGlobs ==
    (argv.remove_garbage /\ pc \in {"load", "filter", "list", "dump", "done"}) =>
        \E legacy \in BOOLEAN :
            LET user == UserFilters(legacy) IN
            /\ filename_filters = <<GarbageLib, GarbageNames>> \o user
            /\ pc = "done" =>
                 LET alone == RemovedKeys(stats, FilteredStats(stats, user)) IN
                 /\ RemovedKeys(stats, Output) = alone \cup BuiltinKeys(stats)
                 /\ alone \subseteq RemovedKeys(stats, Output)

\* C4 witness: a run with the flag in which one key went because of a user
\* glob only and another because of a built-in pattern only.
C4_Witness ==
    /\ pc = "done"
    /\ argv.remove_garbage
    /\ \E k \in DOMAIN stats \ DOMAIN Output : ~MatchesBuiltin(k[1])
    /\ \E k \in DOMAIN stats \ DOMAIN Output :
          /\ MatchesBuiltin(k[1])
          /\ k \in DOMAIN FilteredStats(stats, SubSeq(filename_filters, 3,
                                                      Len(filename_filters)))

\* C5: with --print-included-filenames standard error holds the filenames of
\* the retained keys, each once, in ascending order, and standard output holds
\* the one report that the profile, the globs and --remove-garbage determine,
\* whether or not the flag is given.
C5_SortedUniqueFilenames ==
    pc = "done" =>
        /\ \E legacy \in BOOLEAN :
              stdout = <<FilteredStats(profile_file.data,
                                       WithGarbage(argv.remove_garbage,
                                                   UserFilters(legacy)))>>
        /\ argv.print_included_filenames =>
              /\ {stderr[i] : i \in 1..Len(stderr)} = {k[1] : k \in DOMAIN Output}
              /\ \A i \in 1..(Len(stderr) - 1) : StrLess(stderr[i], stderr[i + 1])
        /\ ~argv.print_included_filenames => stderr = <<>>

\* C5 witness: a listing of several filenames, one of them the filename of
\* two retained keys.
C5_Witness ==
    /\ pc = "done"
    /\ argv.print_included_filenames
    /\ Len(stderr) >= 2
    /\ Cardinality(DOMAIN Output) > Len(stderr)

\* C6: a command line with a profile filename and no glob is accepted and
\* does not end in an argument error.
C6_ZeroGlobsAccepted ==
    Len(argv.positionals) = 1 => pc # "argerror"

\* C7: with --remove-garbage no key of the output, at either level, has a
\* filename under lib/python<version>/ (any version) or a synthetic frame name.
C7_GarbageAbsent ==
    (pc = "done" /\ argv.remove_garbage) =>
        \A k \in DOMAIN Output :
            /\ ~UnderLibPython(k[1]) /\ ~SyntheticFrame(k[1])
            /\ \A c \in DOMAIN Output[k][5] :
                  ~UnderLibPython(c[1]) /\ ~SyntheticFrame(c[1])

\* C8: the steps of main() come in the order compile, load, filter, list,
\* serialize; a glob that does not compile or a profile that does not load
\* ends the process, nothing having been written to standard output or to the
\* filename list; and an ended process takes no further step.
C8_FailuresBeforeOutput ==
    [][/\ <<pc, pc'>> \in {<<"parse", "compile">>, <<"parse", "help">>,
                            <<"parse", "argerror">>, <<"compile", "load">>,
                            <<"compile", "raised">>, <<"load", "filter">>,
                            <<"load", "raised">>, <<"filter", "list">>,
                            <<"list", "dump">>, <<"dump", "done">>}
       /\ pc' \in {"raised", "argerror", "help"} => stdout' = <<>> /\ stderr' = <<>>
       /\ pc' \in {"compile", "load", "filter", "list", "dump"} => stdout' = <<>>
       /\ pc' \in {"compile", "load", "filter", "list"} => stderr' = <<>>
       /\ (pc = "load" /\ profile_file.status # "ok") => pc' = "raised"
       /\ pc' = "load" =>
             \A i \in 1..Len(filename_filters') : re_compile(filename_filters'[i]).ok
      ]_vars

\* C8 witness: the profile failed to load in a run that asked for the
\* filename list.
C8_Witness ==
    /\ pc = "raised"
    /\ argv.print_included_filenames
    /\ profile_file.status # "ok"
    /\ filename_filters # <<>>

\* C9: every input entry whose filename matches no pattern is in the output
\* with nc, cc, tt, ct unchanged, and its callers are exactly the input callers
\* whose filename matches no pattern, each with its timing tuple unchanged.
C9_OnlyMatchingKeysRemoved ==
    pc = "done" =>
        \A k \in DOMAIN stats :
            ~Excluded(k[1]) =>
                /\ k \in DOMAIN Output
                /\ \A i \in 1..4 : Output[k][i] = stats[k][i]
                /\ DOMAIN Output[k][5]
                      = {c \in DOMAIN stats[k][5] : ~Excluded(c[1])}
                /\ \A c \in DOMAIN Output[k][5] : Output[k][5][c] = stats[k][5][c]

\* C9 witness: an entry was kept while one of its caller records was removed.
C9_Witness ==
    /\ pc = "done"
    /\ \E k \in DOMAIN Output : DOMAIN Output[k][5] # DOMAIN stats[k][5]

\* C10: filtering the output again with the same patterns changes nothing,
\* the result is the same for every order of the patterns, and if every
\* caller key of the input is a top-level key, so is every caller key of the
\* output.
C10_IdempotentOrderFreeClosed ==
    pc = "done" =>
        /\ FilteredStats(Output, filename_filters) = Output
        /\ \A p \in OrderingsOf[Len(filename_filters)] :
              FilteredStats(stats, [i \in 1..Len(filename_filters)
                                       |-> filename_filters[p[i]]]) = Output
        /\ CallerClosed(stats) => CallerClosed(Output)

\* C10 witness: from a caller-closed input, an entry was removed that was
\* also a caller of an entry that was kept, under two patterns or more.
C10_Witness ==
    /\ pc = "done"
    /\ Len(filename_filters) >= 2
    /\ CallerClosed(stats)
    /\ \E k \in DOMAIN Output : \E c \in DOMAIN stats[k][5] : c \notin DOMAIN Output

====
